---- MODULE Spec2Model ----
(***************************************************************************)
(* Speed Rush (src/speed_rush.py): the simulation loop game_loop, the      *)
(* entities it updates (Player, Enemy, Powerup), pause_menu and            *)
(* game_over_screen with the high-score file.                              *)
(*                                                                         *)
(* Numbers.  Times are integer milliseconds (clock.tick and get_ticks      *)
(* return integer milliseconds; dt = dt_ms / 1000.0).  Speeds and          *)
(* positions are fixed point, in hundredths (Unit), rounded down after     *)
(* every multiplication by dt.  lane_progress, whose comparison with 1.0   *)
(* decides when a lane change ends, is kept as the exact binary64 value    *)
(* (see FAdd).  difficulty is kept in tenths.                              *)
(***************************************************************************)
EXTENDS Integers, Sequences, FiniteSets, TLC

\* ---------------------------------------------------------------- scales
\* One unit of speed or position is Unit hundredths.
Unit == 10 * 10

Max(a, b) == IF a >= b THEN a ELSE b
Min(a, b) == IF a <= b THEN a ELSE b
Abs(a) == IF a >= 0 THEN a ELSE -a

\* Python's int() on a fixed-point value: truncation toward zero, in pixels.
IntPx(v) == IF v >= 0 THEN v \div Unit ELSE -((-v) \div Unit)

\* ------------------------------------------------------- configuration
SCREEN_WIDTH == 900
SCREEN_HEIGHT == 600
LANE_COUNT == 4
LANE_MARGIN == 80
ROAD_WIDTH == SCREEN_WIDTH - LANE_MARGIN * 2
LANE_WIDTH == ROAD_WIDTH \div LANE_COUNT

PLAYER_START_X == SCREEN_WIDTH \div 2
PLAYER_START_Y == SCREEN_HEIGHT - 140
PLAYER_MAX_SPEED == 30
PLAYER_MIN_SPEED == 6
PLAYER_ACCEL == 18
PLAYER_BRAKE == 36
PLAYER_DRAG == 6
PLAYER_LATERAL_ACCEL == 2200
PLAYER_LATERAL_FRICTION == 8
\* LANE_CHANGE_DURATION = 0.20 s, in milliseconds
LANE_CHANGE_DURATION == 200
\* ENEMY_SPAWN_INTERVAL, ms
ENEMY_SPAWN_INTERVAL == 900
ENEMY_SPEED_BASE == 6

NEAR_MISS_DISTANCE == 180
NEAR_MISS_BONUS == 250
NEAR_MISS_COMBO_WINDOW == 1500
NEAR_MISS_MAX_COMBO == 6
\* NEAR_MISS_COMBO_MULT = 0.25, as a percentage
NEAR_MISS_COMBO_MULT == 25

\* Player.__init__: width, height, speed
PLAYER_WIDTH == 60
PLAYER_HEIGHT == 120
PLAYER_START_SPEED == 12
\* Player.update: nitro_boost = 10.0 while nitro > 0
NITRO_BOOST == 10
\* Player.update: the spring constant of "self.vx += (dx * 8.0) * dt"
SPRING_K == 8
\* game_loop: player.nitro = 3.0 (ms); speed = min(MAX+6, speed+4)
NITRO_DURATION == 3000
NITRO_PICKUP_CAP == 6
NITRO_PICKUP_GAIN == 4
\* game_loop: lane_change_cooldown = 0.18 (ms)
LANE_CHANGE_COOLDOWN == 180
\* game_loop: world_speed = (player.speed - 8.0) * (1 + score/5000.0)
WORLD_BASELINE == 8
SCORE_SCALE == 5000
\* game_loop: max(220, int(spawn_interval / difficulty)); abs(ex.y - e.y) < 200
MIN_SPAWN_INTERVAL == 220
SPAWN_GAP == 200
\* game_loop: now - last_power > 6000
POWERUP_INTERVAL == 6000
\* game_loop: score += 100 for a passed enemy
PASS_BONUS == 100
\* game_loop: e.y > SCREEN_HEIGHT + 200
OFFSCREEN_MARGIN == 200
\* game_loop: FPS_SAMPLE_COUNT, ENEMY_CAP_LOW, ENEMY_CAP_HIGH, avg_fps < 40
FPS_SAMPLE_COUNT == 30
ENEMY_CAP_LOW == 8
ENEMY_CAP_HIGH == 28
LOW_FPS == 40
\* game_loop: pygame.time.delay(350) before game_over_screen
CRASH_DELAY == 350
\* game_over_screen: sorted(scores, reverse=True)[:20]
HIGHSCORE_KEEP == 20
\* Powerup.__init__: width = height = 48
POWERUP_SIZE == 48

\* Lane centre: LANE_MARGIN + lane * LANE_WIDTH + LANE_WIDTH // 2 (pixels).
LaneCenter(lane) == LANE_MARGIN + lane * LANE_WIDTH + LANE_WIDTH \div 2

PLAYER_Y == PLAYER_START_Y * Unit

\* ------------------------------------------------------ binary64 progress
(***************************************************************************)
(* lane_progress is a Python float.  Its values here are sums of the       *)
(* increments dt / LANE_CHANGE_DURATION with 0.0625 <= increment < 1, so   *)
(* every value below 2 is a whole number of 2^-56; it is kept as that      *)
(* number, split in two 28-bit limbs [hi, lo] (value = (hi * 2^28 + lo) *  *)
(* 2^-56).  FAdd is IEEE-754 addition: the exact sum rounded to 53         *)
(* significant bits, ties to even.                                         *)
(***************************************************************************)
Limb == 2^28
FZero == [hi |-> 0, lo |-> 0]
FOne == [hi |-> Limb, lo |-> 0]
FGeqOne(a) == a.hi >= Limb

\* The spacing of binary64 values around a number with high limb hi, in 2^-56.
FUlp(hi) ==
  IF hi >= Limb THEN 16
  ELSE IF hi >= Limb \div 2 THEN 8
  ELSE IF hi >= Limb \div 4 THEN 4
  ELSE IF hi >= Limb \div 8 THEN 2
  ELSE 1

FAdd(a, b) ==
  LET lo0 == a.lo + b.lo
      hi0 == a.hi + b.hi + lo0 \div Limb
      lo1 == lo0 % Limb
      u == FUlp(hi0)
      r == lo1 % u
      base == lo1 - r
      up == (2 * r > u) \/ (2 * r = u /\ (base \div u) % 2 = 1)
      lo2 == IF up THEN base + u ELSE base
  IN  [hi |-> hi0 + lo2 \div Limb, lo |-> lo2 % Limb]

\* The float a in thousandths, to the nearest thousandth.
FMilli(a) == ((a.hi \div 2^10) * 1000 + 2^17) \div 2^18

(***************************************************************************)
(* dt / max(1e-6, LANE_CHANGE_DURATION) with dt = dt_ms / 1000.0, as the   *)
(* binary64 value the two divisions give, in 2^-56 (only for dt_ms below   *)
(* LANE_CHANGE_DURATION; from there on the increment is >= 1.0).           *)
(*   16 -> 0.08                 17 -> 0.085                                *)
(*   20 -> 0.09999999999999999  40 -> 0.19999999999999998                  *)
(*   50 -> 0.25                100 -> 0.5                                  *)
(*  150 -> 0.7499999999999999  180 -> 0.8999999999999999                   *)
(***************************************************************************)
LaneStep(dt) ==
  CASE dt = 16 -> [hi |-> 21474836, lo |-> 128849019]
    [] dt = 17 -> [hi |-> 22817013, lo |-> 204010947]
    [] dt = 20 -> [hi |-> 26843545, lo |-> 161061273]
    [] dt = 40 -> [hi |-> 53687091, lo |-> 53687090]
    [] dt = 50 -> [hi |-> 67108864, lo |-> 0]
    [] dt = 100 -> [hi |-> 134217728, lo |-> 0]
    [] dt = 150 -> [hi |-> 201326591, lo |-> 268435448]
    [] dt = 180 -> [hi |-> 241591910, lo |-> 107374176]

\* t * t * (3 - 2 * t), in thousandths, for t in thousandths.
Ease(tm) == (((tm * tm) \div 1000) * (3000 - 2 * tm)) \div 1000

\* ------------------------------------------------------------------ Player
\* Player.__init__
NewPlayer ==
  [x |-> PLAYER_START_X * Unit,
   speed |-> PLAYER_START_SPEED * Unit,
   vx |-> 0,
   lane |-> LANE_COUNT \div 2,
   start_x |-> PLAYER_START_X * Unit,
   target_x |-> PLAYER_START_X * Unit,
   lane_progress |-> FOne,
   nitro |-> 0,
   shield |-> 0]

\* Player.update, longitudinal part: the nitro countdown.
NitroAfter(p, dt) == IF p.nitro > 0 THEN Max(0, p.nitro - dt) ELSE p.nitro

\* Player.update: nitro_boost, decided by nitro before it is decremented.
NitroBoost(p) == IF p.nitro > 0 THEN NITRO_BOOST * Unit ELSE 0

\* SpeedAfter without the upper clamp.
SpeedUncapped(p, dt, ks) ==
  LET accel == (IF "up" \in ks THEN PLAYER_ACCEL * Unit ELSE 0)
               - (IF "down" \in ks THEN PLAYER_BRAKE * Unit ELSE 0)
      drag == (PLAYER_DRAG * p.speed) \div Max(1, PLAYER_MAX_SPEED)
  IN  Max(PLAYER_MIN_SPEED * Unit, p.speed + ((accel - drag) * dt) \div 1000)

\* Player.update, longitudinal part: the new speed.
SpeedAfter(p, dt, ks) ==
  LET accel == (IF "up" \in ks THEN PLAYER_ACCEL * Unit ELSE 0)
               - (IF "down" \in ks THEN PLAYER_BRAKE * Unit ELSE 0)
      drag == (PLAYER_DRAG * p.speed) \div Max(1, PLAYER_MAX_SPEED)
      s1 == p.speed + ((accel - drag) * dt) \div 1000
  IN  Max(PLAYER_MIN_SPEED * Unit,
          Min(PLAYER_MAX_SPEED * Unit + NitroBoost(p), s1))

\* Lateral without the clamp of x to the road.
LateralUnclamped(p, dt, ks) ==
  LET force == (IF "right" \in ks THEN PLAYER_LATERAL_ACCEL * Unit ELSE 0)
               - (IF "left" \in ks THEN PLAYER_LATERAL_ACCEL * Unit ELSE 0)
      vx1 == p.vx + (force * dt) \div 1000
      vx2 == vx1 - (vx1 * Min(1000, PLAYER_LATERAL_FRICTION * dt)) \div 1000
      x1 == p.x + (vx2 * dt) \div 1000
      dx == LaneCenter(p.lane) * Unit - x1
      vx3 == IF Abs(dx) * 10 < LANE_WIDTH * 9 * Unit
             THEN vx2 + (dx * SPRING_K * dt) \div 1000
             ELSE vx2
  IN  [vx |-> vx3, x |-> x1]

\* Player.update, lateral part: vx and x before the lane-change override.
Lateral(p, dt, ks) ==
  LET force == (IF "right" \in ks THEN PLAYER_LATERAL_ACCEL * Unit ELSE 0)
               - (IF "left" \in ks THEN PLAYER_LATERAL_ACCEL * Unit ELSE 0)
      vx1 == p.vx + (force * dt) \div 1000
      vx2 == vx1 - (vx1 * Min(1000, PLAYER_LATERAL_FRICTION * dt)) \div 1000
      x1 == p.x + (vx2 * dt) \div 1000
      dx == LaneCenter(p.lane) * Unit - x1
      vx3 == IF Abs(dx) * 10 < LANE_WIDTH * 9 * Unit
             THEN vx2 + (dx * SPRING_K * dt) \div 1000
             ELSE vx2
      min_x == (LANE_MARGIN + 10) * Unit
      max_x == (LANE_MARGIN + ROAD_WIDTH - 10) * Unit
  IN  [vx |-> vx3, x |-> Max(min_x, Min(max_x, x1))]

\* LaneSnap with "self.x = self.target_x" forgotten on completion.
LaneSnapLoose(p, x, dt) ==
  IF FGeqOne(p.lane_progress)
  THEN [lane_progress |-> p.lane_progress, x |-> x]
  ELSE LET done == dt >= LANE_CHANGE_DURATION
           lp == IF done THEN FOne ELSE FAdd(p.lane_progress, LaneStep(dt))
       IN  IF done \/ FGeqOne(lp)
           THEN [lane_progress |-> FOne, x |-> x]
           ELSE [lane_progress |-> lp,
                 x |-> p.start_x
                       + ((p.target_x - p.start_x) * Ease(FMilli(lp))) \div 1000]

\* Player.update, the lane-change interpolation: lane_progress and x.
LaneSnap(p, x, dt) ==
  IF FGeqOne(p.lane_progress)
  THEN [lane_progress |-> p.lane_progress, x |-> x]
  ELSE LET done == dt >= LANE_CHANGE_DURATION
           lp == IF done THEN FOne ELSE FAdd(p.lane_progress, LaneStep(dt))
       IN  IF done \/ FGeqOne(lp)
           THEN [lane_progress |-> FOne, x |-> p.target_x]
           ELSE [lane_progress |-> lp,
                 x |-> p.start_x
                       + ((p.target_x - p.start_x) * Ease(FMilli(lp))) \div 1000]

\* Player.update(dt, keys)
PlayerUpdate(p, dt, ks) ==
  LET lat == Lateral(p, dt, ks)
      snap == LaneSnap(p, lat.x, dt)
  IN  [p EXCEPT !.nitro = NitroAfter(p, dt),
                !.speed = SpeedAfter(p, dt, ks),
                !.vx = lat.vx,
                !.x = snap.x,
                !.lane_progress = snap.lane_progress]

\* player.rect after Player.update: centred on (int(x), int(y)).
PlayerRect(p) ==
  [left |-> IntPx(p.x) - PLAYER_WIDTH \div 2,
   top |-> PLAYER_START_Y - PLAYER_HEIGHT \div 2,
   w |-> PLAYER_WIDTH, h |-> PLAYER_HEIGHT]

\* pygame.Rect.colliderect
CollideRect(a, b) ==
  /\ a.left < b.left + b.w
  /\ b.left < a.left + a.w
  /\ a.top < b.top + b.h
  /\ b.top < a.top + a.h

\* ------------------------------------------------------- Enemy and Powerup
Kinds == {"car", "truck", "bus"}
EnemyWidth(kind) == IF kind = "car" THEN 60 ELSE IF kind = "truck" THEN 90 ELSE 100
EnemyHeight(kind) == IF kind = "car" THEN 120 ELSE 140

(***************************************************************************)
(* Enemy.__init__ with its random draws as the input sp: the lane          *)
(* (randint(0, LANE_COUNT-1)), y0 (randint(100, 800)) and r, the value of  *)
(* random.random() * 2.0 in hundredths.  Two fields are bookkeeping the     *)
(* code does not have: awards counts how often the passing bonus was added *)
(* for this entity, above the scoring steps that found its y > player.y,   *)
(* born the get_ticks() of the tick that appended it (see Born).           *)
(***************************************************************************)
NewEnemy(sp) ==
  [kind |-> sp.kind,
   lane |-> sp.lane,
   y |-> -(sp.y0 * Unit),
   speed |-> ENEMY_SPEED_BASE * Unit
             - (IF sp.kind = "truck" THEN 120 ELSE 0)
             - (IF sp.kind = "bus" THEN 80 ELSE 0)
             + sp.r,
   passed |-> FALSE,
   awards |-> 0,
   above |-> 0,
   born |-> 0]

\* Enemy.update: y += (speed + world_speed) * (dt * 60.0)
EnemyUpdate(e, dt, world_speed) ==
  [e EXCEPT !.y = @ + ((e.speed + world_speed) * 6 * dt) \div 100]

\* Enemy.update: rect centred on (int(x), int(y)), x the lane centre.
EnemyRect(e) ==
  [left |-> LaneCenter(e.lane) - EnemyWidth(e.kind) \div 2,
   top |-> IntPx(e.y) - EnemyHeight(e.kind) \div 2,
   w |-> EnemyWidth(e.kind), h |-> EnemyHeight(e.kind)]

\* Powerup.__init__: kind, lane = randint(0, LANE_COUNT-1), y = -randint(200, 1200)
NewPowerup(pw) == [kind |-> pw.kind, lane |-> pw.lane, y |-> -(pw.y0 * Unit)]

\* Powerup.update: y += world_speed * (dt * 60.0)
PowerupUpdate(pu, dt, world_speed) ==
  [pu EXCEPT !.y = @ + (world_speed * 6 * dt) \div 100]

PowerupRect(pu) ==
  [left |-> LaneCenter(pu.lane) - POWERUP_SIZE \div 2,
   top |-> IntPx(pu.y) - POWERUP_SIZE \div 2,
   w |-> POWERUP_SIZE, h |-> POWERUP_SIZE]

\* ---------------------------------------------------------- tick helpers
\* Difficulty rounding the thousands of the score instead of flooring them.
DifficultyRounded(sc) == 10 + (sc + 500) \div 1000

\* difficulty = 1.0 + (score // 1000) * 0.1, in tenths
Difficulty(sc) == 10 + sc \div 1000

\* world_speed = (player.speed - 8.0) * (1 + (score/5000.0))
WorldSpeed(p, sc) ==
  ((p.speed - WORLD_BASELINE * Unit) * (SCORE_SCALE + sc)) \div SCORE_SCALE

\* current_spawn_interval = max(220, int(spawn_interval / difficulty))
SpawnInterval(diff) ==
  Max(MIN_SPAWN_INTERVAL, (ENEMY_SPAWN_INTERVAL * 10) \div diff)

\* The spawn check: no enemy of the same lane within SPAWN_GAP of the new one.
SpawnSafe(es, e) ==
  \A i \in 1..Len(es) :
     ~(es[i].lane = e.lane /\ Abs(es[i].y - e.y) < SPAWN_GAP * Unit)

\* game_loop, "Enemy spawning": the enemy list after the spawn step.
SpawnEnemy(es, fires, sp) ==
  IF fires /\ SpawnSafe(es, NewEnemy(sp)) THEN Append(es, NewEnemy(sp)) ELSE es

\* game_loop, "Powerup spawn occasionally": pw.gate is random.random() < 0.2.
SpawnPowerup(pus, fires, pw) ==
  IF fires /\ pw.gate THEN Append(pus, NewPowerup(pw)) ELSE pus

\* The list es whose entities after the n-th were appended at time nowt.
Born(es, n, nowt) ==
  [i \in 1..Len(es) |-> IF i > n THEN [es[i] EXCEPT !.born = nowt] ELSE es[i]]

MapEnemies(es, dt, ws) == [i \in 1..Len(es) |-> EnemyUpdate(es[i], dt, ws)]
MapPowerups(pus, dt, ws) == [i \in 1..Len(pus) |-> PowerupUpdate(pus[i], dt, ws)]

\* The enemies of the list whose rect overlaps the player's.
Overlapping(es, p) ==
  {i \in 1..Len(es) : CollideRect(EnemyRect(es[i]), PlayerRect(p))}

(***************************************************************************)
(* game_loop, "for e in enemies[:]": one pass over the snapshot snap from  *)
(* index i on.  acc.kept is the part of the live list already decided;     *)
(* a crash returns from game_loop at once and leaves the rest untouched.   *)
(* An entity is removed once at most: an absorbed one overlaps the player, *)
(* so its y is far above SCREEN_HEIGHT + OFFSCREEN_MARGIN.                 *)
(***************************************************************************)
\* Crashes with the shield test left out: every overlap is a crash.
CrashesUnshielded(hit, shield) == hit

\* "if e.rect.colliderect(...)": "if player.shield > 0" ... "else" (the crash)
Crashes(hit, shield) == hit /\ ~(shield > 0)

\* Awards without the passed flag: the bonus is due on every tick below.
AwardsAgain(e) == e.y > PLAYER_Y

\* "if not e.passed and e.y > player.y": the passing bonus is due
Awards(e) == ~e.passed /\ e.y > PLAYER_Y

\* Stays with the removal of an absorbed entity forgotten.
StaysAbsorbed(hit, e) == ~(e.y > (SCREEN_HEIGHT + OFFSCREEN_MARGIN) * Unit)

\* An entity stays in the list unless absorbed or past the bottom margin.
Stays(hit, e) == ~hit /\ ~(e.y > (SCREEN_HEIGHT + OFFSCREEN_MARGIN) * Unit)

RECURSIVE CollideLoop(_, _, _, _)
CollideLoop(snap, i, pr, acc) ==
  IF i > Len(snap) THEN acc
  ELSE
    LET e == snap[i]
        hit == CollideRect(EnemyRect(e), pr)
    IN  IF Crashes(hit, acc.shield)
        THEN [acc EXCEPT !.crashed = TRUE,
                         !.kept = @ \o SubSeq(snap, i, Len(snap))]
        ELSE
          LET award == Awards(e)
              e1 == [e EXCEPT !.passed = IF award THEN TRUE ELSE @,
                              !.awards = IF award THEN @ + 1 ELSE @,
                              !.above = IF e.y > PLAYER_Y THEN @ + 1 ELSE @]
              acc1 == [acc EXCEPT
                         !.shield = IF hit THEN @ - 1 ELSE @,
                         !.absorbed = IF hit THEN @ + 1 ELSE @,
                         !.score = IF award THEN @ + PASS_BONUS ELSE @,
                         !.awards = IF award THEN @ + 1 ELSE @,
                         !.kept = IF Stays(hit, e) THEN Append(@, e1) ELSE @]
          IN  CollideLoop(snap, i + 1, pr, acc1)

\* Collide with the score of the tick counted from zero ("=" for "+=").
CollideFromZero(es, p, sc) ==
  CollideLoop(es, 1, PlayerRect(p),
              [kept |-> << >>, shield |-> p.shield, score |-> 0,
               crashed |-> FALSE, absorbed |-> 0, awards |-> 0])

\* Collision detection & scoring of one tick.
Collide(es, p, sc) ==
  CollideLoop(es, 1, PlayerRect(p),
              [kept |-> << >>, shield |-> p.shield, score |-> sc,
               crashed |-> FALSE, absorbed |-> 0, awards |-> 0])

\* Pickup with the nitro time added to what is left of the last boost.
PickupAdds(p, pu) ==
  IF pu.kind = "nitro"
  THEN [p EXCEPT !.nitro = @ + NITRO_DURATION,
                 !.speed = Min((PLAYER_MAX_SPEED + NITRO_PICKUP_CAP) * Unit,
                               @ + NITRO_PICKUP_GAIN * Unit)]
  ELSE [p EXCEPT !.shield = @ + 1]

\* game_loop: the effect of picking up one powerup on the player.
Pickup(p, pu) ==
  IF pu.kind = "nitro"
  THEN [p EXCEPT !.nitro = NITRO_DURATION,
                 !.speed = Min((PLAYER_MAX_SPEED + NITRO_PICKUP_CAP) * Unit,
                               @ + NITRO_PICKUP_GAIN * Unit)]
  ELSE [p EXCEPT !.shield = @ + 1]

\* game_loop, "for pu in powerups[:]": acc = [p, kept, nitro, shield].
RECURSIVE PickupLoop(_, _, _)
PickupLoop(snap, i, acc) ==
  IF i > Len(snap) THEN acc
  ELSE
    LET pu == snap[i]
        hit == CollideRect(PowerupRect(pu), PlayerRect(acc.p))
    IN  PickupLoop(snap, i + 1,
          IF hit
          THEN [acc EXCEPT !.p = Pickup(@, pu),
                           !.nitro = IF pu.kind = "nitro" THEN @ + 1 ELSE @,
                           !.shield = IF pu.kind = "shield" THEN @ + 1 ELSE @]
          ELSE [acc EXCEPT !.kept = Append(@, pu)])

\* clock.get_fps(): pygame's average frame rate, taken as this frame's rate.
GetFps(dt) == 1000 \div dt

RECURSIVE SumSeq(_)
SumSeq(q) == IF q = << >> THEN 0 ELSE Head(q) + SumSeq(Tail(q))

\* fps_samples.append(...); pop(0) beyond FPS_SAMPLE_COUNT
PushSample(samples, f) ==
  LET s1 == Append(samples, f)
  IN  IF Len(s1) > FPS_SAMPLE_COUNT THEN Tail(s1) ELSE s1

\* q[:n]
FirstN(q, n) == IF Len(q) > n THEN SubSeq(q, 1, n) ELSE q

\* enemies[-cap:]
LastN(q, n) == IF Len(q) > n THEN SubSeq(q, Len(q) - n + 1, Len(q)) ELSE q

\* CapEnemies keeping the head of the list, enemies[:cap], not its tail.
CapEnemiesHead(es, samples) ==
  IF SumSeq(samples) < LOW_FPS * Len(samples)
  THEN FirstN(es, ENEMY_CAP_LOW)
  ELSE FirstN(es, ENEMY_CAP_HIGH)

\* adaptive LOD: the enemy list after the cap (avg_fps < 40 -> ENEMY_CAP_LOW).
CapEnemies(es, samples) ==
  IF SumSeq(samples) < LOW_FPS * Len(samples)
  THEN LastN(es, ENEMY_CAP_LOW)
  ELSE LastN(es, ENEMY_CAP_HIGH)

\* game_over_screen: the list handed to save_highscores.
RECURSIVE InsertDesc(_, _)
InsertDesc(q, v) ==
  IF q = << >> THEN <<v>>
  ELSE IF v > Head(q) THEN <<v>> \o q
  ELSE <<Head(q)>> \o InsertDesc(Tail(q), v)

RECURSIVE SortDesc(_)
SortDesc(q) == IF q = << >> THEN << >> ELSE InsertDesc(SortDesc(Tail(q)), Head(q))

\* SavedScores with the [:20] slice left out.
SavedUncut(loaded, sc) == SortDesc(Append(loaded, sc))

\* scores.append(int(score)); sorted(scores, reverse=True)[:20]
SavedScores(loaded, sc) == FirstN(SortDesc(Append(loaded, sc)), HIGHSCORE_KEEP)

\* ------------------------------------------------------------------- state
VARIABLES
  state,             \* "Playing" (game_loop), "Paused" (pause_menu), "GameOver"
  pc,                \* in game_loop: "top" (at clock.tick) or "events"
  clock,             \* pygame.time.get_ticks(), ms
  dt_ms,             \* game_loop: dt_ms of the current frame
  keys,              \* game_loop: keys, the held keys of the current frame
  evq,               \* the KEYDOWN events of pygame.event.get() not yet handled
  player,            \* Player: x, speed, vx, lane, start_x, target_x, ...
  enemies,           \* game_loop: enemies
  powerups,          \* game_loop: powerups
  score,             \* game_loop: score
  lane_timer,        \* game_loop: lane_timer, ms
  near_combo_count,  \* game_loop: near_combo_count
  near_last_time,    \* game_loop: near_last_time
  last_spawn,        \* game_loop: last_spawn
  last_power,        \* game_loop: last_power
  fps_samples,       \* game_loop: fps_samples
  difficulty,        \* game_loop: difficulty, in tenths
  highscores,        \* the content of HIGHSCORE_FILE
  lane_elapsed,      \* the ms Player.update was given since the latest lane change of the run began, -1 before the first
  frames,            \* the clock.tick(FPS) calls made so far, in any of the loops
  paused,            \* the ms spent in pause_menu since last_spawn, last_power, near_last_time were set
  last               \* what the last step did (a report, not program state)

vars == <<state, pc, clock, dt_ms, keys, evq, player, enemies, powerups, score,
          lane_timer, near_combo_count, near_last_time, last_spawn, last_power,
          fps_samples, difficulty, highscores, lane_elapsed, frames, paused,
          last>>

run_vars == <<player, enemies, powerups, score, lane_timer, near_combo_count,
              near_last_time, last_spawn, last_power, fps_samples, difficulty,
              lane_elapsed>>

(***************************************************************************)
(* Of a tick: shield0, nitro_in and score0 are player.shield, player.nitro *)
(* and score when it began; hits the enemies overlapping the player after  *)
(* the motion update; absorbed, crashed and awards what the collision loop *)
(* did; speed0 and nitro0 the player's speed and nitro after Player.update *)
(* and before the pickups; boxes the length of the powerup list then;      *)
(* nitro and shield the powerups picked up.                                *)
(* Of a lane key: lane0 and timer0 are player.lane and lane_timer before   *)
(* it; trigger tells a near-miss, gap the time since the previous one and  *)
(* combo0 the combo count before it.  spawned and boxed tell that the tick *)
(* appended a traffic entity, a powerup; precap is the traffic list after  *)
(* the collision loop, before the adaptive cap.                            *)
(***************************************************************************)
NoPause == [spawn |-> 0, power |-> 0, near |-> 0]

\* NoReport is the report of a step that is neither a tick nor a lane key.
NoReport ==
  [act |-> "none", shield0 |-> 0, nitro_in |-> 0, score0 |-> 0, hits |-> 0,
   absorbed |-> 0, crashed |-> FALSE, awards |-> 0, speed0 |-> 0, nitro0 |-> 0,
   boxes |-> 0, nitro |-> 0, shield |-> 0, lane0 |-> 0, timer0 |-> 0, trigger |-> FALSE,
   gap |-> 0, combo0 |-> 0, spawned |-> FALSE, boxed |-> FALSE,
   precap |-> << >>]

\* ------------------------------------------------------------------ bounds
\* The clock when the first run starts (the time spent in main_menu), ms.
StartClock == 500
\* The high-score files a session may find: none, or one of earlier sessions.
StoredFiles == {<< >>, [i \in 1..HIGHSCORE_KEEP |-> PASS_BONUS]}

\* ----------------------------------------------------------------- actions
\* game_loop, "# init", with the high-score file one of files
Start(files) ==
  /\ state = "Playing"
  /\ pc = "top"
  /\ clock = StartClock
  /\ dt_ms = 0
  /\ keys = {}
  /\ evq = << >>
  /\ player = NewPlayer
  /\ enemies = << >>
  /\ powerups = << >>
  /\ score = 0
  /\ lane_timer = 0
  /\ near_combo_count = 0
  /\ near_last_time = 0
  /\ last_spawn = StartClock
  /\ last_power = StartClock
  /\ fps_samples = << >>
  /\ difficulty = 10
  /\ highscores \in files
  /\ lane_elapsed = -1
  /\ frames = 0
  /\ paused = NoPause
  /\ last = NoReport

Init == Start(StoredFiles)

\* game_loop: dt_ms = clock.tick(FPS); keys = get_pressed(); event.get()
BeginFrame(DT, KS, EV, limit) ==
  /\ state = "Playing"
  /\ pc = "top"
  /\ frames < limit
  /\ frames' = frames + 1
  /\ \E d \in DT, k \in KS, ev \in EV :
       /\ clock' = clock + d
       /\ dt_ms' = d
       /\ keys' = k
       /\ evq' = ev
  /\ pc' = "events"
  /\ last' = [NoReport EXCEPT !.act = "frame"]
  /\ UNCHANGED <<state, highscores, paused>>
  /\ UNCHANGED run_vars

\* NewLane without the max / min that keep it on the road.
NewLaneUnclamped(lane, key) == IF key = "left" THEN lane - 1 ELSE lane + 1

\* new_lane = max(0, player.lane-1) / min(LANE_COUNT-1, player.lane+1)
NewLane(lane, key) ==
  IF key = "left" THEN Max(0, lane - 1) ELSE Min(LANE_COUNT - 1, lane + 1)

\* Changes without "if new_lane != player.lane".
ChangesAlways(timer, lane, new_lane) == timer <= 0

\* "if lane_timer <= 0:" ... "if new_lane != player.lane:"
Changes(timer, lane, new_lane) == timer <= 0 /\ new_lane # lane

\* NearMiss without the test of the entity's lane.
NearMissAnyLane(es, lane) ==
  \E i \in 1..Len(es) : Abs(es[i].y - PLAYER_Y) < NEAR_MISS_DISTANCE * Unit

\* The near-miss test of a lane change: an enemy of the new lane near player.y.
NearMiss(es, lane) ==
  \E i \in 1..Len(es) :
     es[i].lane = lane /\ Abs(es[i].y - PLAYER_Y) < NEAR_MISS_DISTANCE * Unit

\* ComboAfter without the window test: the combo never starts over.
ComboNoReset(count, last_time, nowt) == Min(NEAR_MISS_MAX_COMBO, count + 1)

\* near_combo_count after a near-miss at time nowt
ComboAfter(count, last_time, nowt) ==
  IF nowt - last_time <= NEAR_MISS_COMBO_WINDOW
  THEN Min(NEAR_MISS_MAX_COMBO, count + 1)
  ELSE 1

\* NearMissBonus without the combo multiplier.
NearMissBonusFlat(count) == NEAR_MISS_BONUS

\* bonus = int(NEAR_MISS_BONUS * (1.0 + (near_combo_count-1) * NEAR_MISS_COMBO_MULT))
NearMissBonus(count) ==
  (NEAR_MISS_BONUS * (100 + (count - 1) * NEAR_MISS_COMBO_MULT)) \div 100

\* game_loop: KEYDOWN of K_LEFT / K_a ("left") or K_RIGHT / K_d ("right")
LaneKey(key) ==
  /\ state = "Playing"
  /\ pc = "events"
  /\ evq # << >>
  /\ Head(evq) = key
  /\ evq' = Tail(evq)
  /\ LET new_lane == NewLane(player.lane, key)
         changes == Changes(lane_timer, player.lane, new_lane)
         near == changes /\ NearMiss(enemies, new_lane)
         combo == ComboAfter(near_combo_count, near_last_time, clock)
     IN  /\ player' = IF changes
                      THEN [player EXCEPT !.start_x = player.x,
                                          !.lane = new_lane,
                                          !.target_x = LaneCenter(new_lane) * Unit,
                                          !.lane_progress = FZero]
                      ELSE player
         /\ lane_timer' = IF changes THEN LANE_CHANGE_COOLDOWN ELSE lane_timer
         /\ lane_elapsed' = IF changes THEN 0 ELSE lane_elapsed
         /\ near_combo_count' = IF near THEN combo ELSE near_combo_count
         /\ near_last_time' = IF near THEN clock ELSE near_last_time
         /\ paused' = IF near THEN [paused EXCEPT !.near = 0] ELSE paused
         /\ score' = IF near THEN score + NearMissBonus(combo) ELSE score
         /\ last' = [NoReport EXCEPT !.act = key,
                                     !.lane0 = player.lane,
                                     !.timer0 = lane_timer,
                                     !.trigger = near,
                                     !.gap = clock - near_last_time,
                                     !.combo0 = near_combo_count]
  /\ UNCHANGED <<state, pc, clock, dt_ms, keys, enemies, powerups, last_spawn,
                 last_power, fps_samples, difficulty, highscores, frames>>

KeyLeft == LaneKey("left")
KeyRight == LaneKey("right")

\* game_loop: KEYDOWN of K_p calls pause_menu()
KeyPause ==
  /\ state = "Playing"
  /\ pc = "events"
  /\ evq # << >>
  /\ Head(evq) = "p"
  /\ evq' = Tail(evq)
  /\ state' = "Paused"
  /\ last' = [NoReport EXCEPT !.act = "p"]
  /\ UNCHANGED <<pc, clock, dt_ms, keys, highscores, frames, paused>>
  /\ UNCHANGED run_vars

\* pause_menu: one iteration of its loop, clock.tick(FPS), no key pressed
PauseFrame(PD, limit) ==
  /\ state = "Paused"
  /\ frames < limit
  /\ frames' = frames + 1
  /\ \E d \in PD :
       /\ clock' = clock + d
       /\ paused' = [spawn |-> paused.spawn + d, power |-> paused.power + d,
                     near |-> paused.near + d]
  /\ last' = [NoReport EXCEPT !.act = "paused"]
  /\ UNCHANGED <<state, pc, dt_ms, keys, evq, highscores>>
  /\ UNCHANGED run_vars

\* pause_menu: KEYDOWN of K_p or K_ESCAPE ends the loop
Resume ==
  /\ state = "Paused"
  /\ state' = "Playing"
  /\ last' = [NoReport EXCEPT !.act = "resume"]
  /\ UNCHANGED <<pc, clock, dt_ms, keys, evq, highscores, frames, paused>>
  /\ UNCHANGED run_vars

\* SpawnTimer resetting only when the candidate entity was appended.
SpawnTimerOnAppend(fires, appended, nowt, prev) ==
  IF fires /\ appended THEN nowt ELSE prev

\* "if now - last_spawn > ...: last_spawn = now", the same for last_power
SpawnTimer(fires, appended, nowt, prev) == IF fires THEN nowt ELSE prev

\* StateAfter with the "return" after game_over_screen forgotten.
StateAfterNoReturn(crashed) == "Playing"

\* The crash ends game_loop ("game_over_screen(score)", "return").
StateAfter(crashed) == IF crashed THEN "GameOver" ELSE "Playing"

\* The world speed of a tick taken from the player Player.update returns.
TickWorldSpeedUpdated(before, after, sc) == WorldSpeed(after, sc)

\* game_loop computes world_speed ahead of "player.update(dt, keys)": the
\* motion update of the tick uses the speed of the player before its update.
TickWorldSpeed(before, after, sc) == WorldSpeed(before, sc)

\* The two spawn conditions of the current frame.
SpawnFires == clock - last_spawn > SpawnInterval(Difficulty(score))
PowerFires == clock - last_power > POWERUP_INTERVAL

\* The draws of a spawner whose timer has not fired: never looked at.
NoSpawn == [kind |-> "car", lane |-> 0, y0 |-> 800, r |-> 0]
NoPowerup == [gate |-> FALSE, kind |-> "nitro", lane |-> 0, y0 |-> 200]

(***************************************************************************)
(* game_loop, from "lane_timer = max(0.0, lane_timer - dt)" to the end of  *)
(* the adaptive LOD step (drawing changes nothing).  sp and pw are the     *)
(* random draws of the two spawners.                                       *)
(***************************************************************************)
TickWith(sp, pw) ==
  \E p1 \in {PlayerUpdate(player, dt_ms, keys)},
     es1 \in {Born(SpawnEnemy(enemies, SpawnFires, sp), Len(enemies), clock)},
     pus1 \in {SpawnPowerup(powerups, PowerFires, pw)} :
  \E es2 \in {MapEnemies(es1, dt_ms, TickWorldSpeed(player, p1, score))},
     pus2 \in {MapPowerups(pus1, dt_ms, TickWorldSpeed(player, p1, score))},
     samples \in {PushSample(fps_samples, GetFps(dt_ms))} :
  \E col \in {Collide(es2, p1, score)} :
  \E p2 \in {[p1 EXCEPT !.shield = col.shield]} :
  \E pick \in {PickupLoop(pus2, 1, [p |-> p2, kept |-> << >>,
                                    nitro |-> 0, shield |-> 0])},
     report \in {[NoReport EXCEPT !.act = "tick",
                                  !.shield0 = player.shield,
                                  !.nitro_in = player.nitro,
                                  !.score0 = score,
                                  !.hits = Cardinality(Overlapping(es2, p1)),
                                  !.absorbed = col.absorbed,
                                  !.crashed = col.crashed,
                                  !.awards = col.awards,
                                  !.speed0 = p2.speed,
                                  !.nitro0 = p2.nitro,
                                  !.boxes = Len(pus2),
                                  !.spawned = Len(es1) > Len(enemies),
                                  !.boxed = Len(pus1) > Len(powerups),
                                  !.precap = col.kept]} :
      /\ lane_timer' = Max(0, lane_timer - dt_ms)
      /\ lane_elapsed' = IF lane_elapsed < 0 THEN lane_elapsed
                                            ELSE lane_elapsed + dt_ms
      /\ difficulty' = Difficulty(score)
      /\ last_spawn' = SpawnTimer(SpawnFires, Len(es1) > Len(enemies), clock,
                                  last_spawn)
      /\ last_power' = SpawnTimer(PowerFires, Len(pus1) > Len(powerups), clock,
                                  last_power)
      /\ paused' = [paused EXCEPT
                      !.spawn = IF last_spawn' = last_spawn THEN @ ELSE 0,
                      !.power = IF last_power' = last_power THEN @ ELSE 0]
      /\ score' = col.score
      /\ pc' = "top"
      /\ UNCHANGED <<dt_ms, keys, evq, near_combo_count, near_last_time, frames>>
      /\ IF col.crashed
         THEN /\ state' = StateAfter(TRUE)
              /\ clock' = clock + CRASH_DELAY
              /\ highscores' = SavedScores(highscores, col.score)
              /\ player' = p2
              /\ enemies' = col.kept
              /\ powerups' = pus2
              /\ fps_samples' = fps_samples
              /\ last' = report
         ELSE /\ state' = StateAfter(FALSE)
              /\ clock' = clock
              /\ highscores' = highscores
              /\ player' = pick.p
              /\ enemies' = CapEnemies(col.kept, samples)
              /\ powerups' = pick.kept
              /\ fps_samples' = samples
              /\ last' = [report EXCEPT !.nitro = pick.nitro,
                                        !.shield = pick.shield]

\* One frame's simulation; the spawners draw only when their timer fires.
Tick(SP, PW) ==
  /\ state = "Playing"
  /\ pc = "events"
  /\ evq = << >>
  /\ \E sp \in (IF SpawnFires THEN SP ELSE {NoSpawn}),
        pw \in (IF PowerFires THEN PW ELSE {NoPowerup}) : TickWith(sp, pw)

\* After game_over_screen returns: main_menu, then game_loop() again, d ms later.
NewRun(MD, limit) ==
  /\ state = "GameOver"
  /\ frames < limit
  /\ frames' = frames + 1
  /\ \E d \in MD :
       /\ clock' = clock + d
       /\ last_spawn' = clock + d
       /\ last_power' = clock + d
  /\ state' = "Playing"
  /\ pc' = "top"
  /\ player' = NewPlayer
  /\ enemies' = << >>
  /\ powerups' = << >>
  /\ score' = 0
  /\ lane_timer' = 0
  /\ near_combo_count' = 0
  /\ near_last_time' = 0
  /\ fps_samples' = << >>
  /\ difficulty' = 10
  /\ paused' = NoPause
  /\ lane_elapsed' = -1
  /\ last' = [NoReport EXCEPT !.act = "run"]
  /\ UNCHANGED <<dt_ms, keys, evq, highscores>>

\* ------------------------------------------------------------ environments
(***************************************************************************)
(* What the program cannot decide is handed to the actions as sets: the    *)
(* frame times clock.tick returns, the held keys, the KEYDOWN events of a  *)
(* frame, the draws of the two spawners.  Each specification below lets    *)
(* the same actions run in one such environment.                           *)
(***************************************************************************)
NoKeys == {}
Events(names) == {<< >>} \cup {<<n>> : n \in names}
Car(lane, y0, r) == [kind |-> "car", lane |-> lane, y0 |-> y0, r |-> r]
Truck(lane, y0, r) == [kind |-> "truck", lane |-> lane, y0 |-> y0, r |-> r]
Box(kind, lane, y0) == [gate |-> TRUE, kind |-> kind, lane |-> lane, y0 |-> y0]

\* The time main_menu takes between two runs, ms.
MenuTimes == {500}

\* Traffic: one-second frames and a stall of seven, steering, no throttle.
\* MaxFrames bounds the clock.tick calls of a behaviour (frames and menus).
MaxFrames == 5
TrafficFrames == {1000, 7000}
TrafficSpawns == {Truck(1, 100, 0), Car(1, 140, 199), Car(2, 100, 0)}
TrafficPowerups == {Box("shield", 1, 1200)}

Next ==
  \/ BeginFrame(TrafficFrames, {NoKeys}, Events({"left", "right"}), MaxFrames)
  \/ KeyLeft
  \/ KeyRight
  \/ Tick(TrafficSpawns, TrafficPowerups)
  \/ NewRun(MenuTimes, MaxFrames)

Spec == Init /\ [][Next]_vars

(***************************************************************************)
(* Powerups: throttle and pause, and a car that comes down the lane of the *)
(* powerups.  The pause lets the powerup timer fire within short frames.   *)
(* One specification draws shields, the other nitro.                       *)
(***************************************************************************)
\* MaxPowerFrames bounds the clock.tick calls (frames and pause iterations).
MaxPowerFrames == 4
PowerFrames == {1000, 7000}
PauseTimes == {7000}
PowerSpawns == {Car(1, 800, 0)}
Shields == {Box("shield", 1, 400), Box("shield", 1, 1200)}
Nitros == {Box("nitro", 1, 400), Box("nitro", 1, 1200)}

NextPower(boxes) ==
  \/ BeginFrame(PowerFrames, {NoKeys, {"up"}}, Events({"left", "p"}),
                MaxPowerFrames)
  \/ KeyLeft
  \/ KeyPause
  \/ PauseFrame(PauseTimes, MaxPowerFrames)
  \/ Resume
  \/ Tick(PowerSpawns, boxes)

NextShield == NextPower(Shields)
NextNitro == NextPower(Nitros)

SpecShield == Start({<< >>}) /\ [][NextShield]_vars
SpecNitro == Start({<< >>}) /\ [][NextNitro]_vars

(***************************************************************************)
(* Lane changes: frames that slice LANE_CHANGE_DURATION in one, two or     *)
(* five, no traffic in the player's lanes.                                 *)
(***************************************************************************)
\* MaxLaneFrames bounds the frames: five slices and the frame after them.
MaxLaneFrames == 6
LaneFrames == {40, 100, 200}
LaneSpawns == {Car(0, 800, 0)}

NextLane ==
  \/ BeginFrame(LaneFrames, {NoKeys}, Events({"left", "right"}), MaxLaneFrames)
  \/ KeyLeft
  \/ KeyRight
  \/ Tick(LaneSpawns, {NoPowerup})

SpecLane == Start({<< >>}) /\ [][NextLane]_vars

(***************************************************************************)
(* Steering against the edge of the road: 50 ms frames with the right key  *)
(* held or released, and lane keys in any frame.                          *)
(***************************************************************************)
\* MaxSteerFrames bounds the frames: enough to drift from lane 3 to the edge.
MaxSteerFrames == 19
SteerFrames == {50}
SteerKeys == {{"right"}}
SteerSpawns == {Car(0, 800, 0)}

NextSteer ==
  \/ BeginFrame(SteerFrames, SteerKeys, Events({"left", "right"}),
                MaxSteerFrames)
  \/ KeyLeft
  \/ KeyRight
  \/ Tick(SteerSpawns, {NoPowerup})

SpecSteer == Start({<< >>}) /\ [][NextSteer]_vars

(***************************************************************************)
(* Dense traffic: the brake held, one-second frames after a first frame    *)
(* that may be short, and a truck drawn in every frame, in a lane of the   *)
(* spawner's choice during the first frames and lane after lane later.     *)
(* The player does not steer; at x = 450 no lane's traffic touches it.     *)
(***************************************************************************)
\* MaxCapFrames bounds the frames: more than FPS_SAMPLE_COUNT of them.
MaxCapFrames == 32
\* CapChoices is the number of frames in which the spawner's lane is free.
CapChoices == 4
\* The frame times clock.tick may return in the n-th frame.
CapFrames(n) == IF n = 1 THEN {20, 1000} ELSE {1000}
\* The draws of the traffic spawner in the n-th frame.
CapDraws(n) ==
  IF n <= CapChoices
  THEN {Truck(l, 800, 0) : l \in {0, 1, 3}}
  ELSE {Truck(n % LANE_COUNT, 800, 0)}

NextCap ==
  \/ BeginFrame(CapFrames(frames + 1), {{"down"}}, {<< >>}, MaxCapFrames)
  \/ Tick(CapDraws(frames), {NoPowerup})

SpecCap == Start({<< >>}) /\ [][NextCap]_vars

(***************************************************************************)
(* Whole runs: the environment of the shield runs, and after a crash the   *)
(* menu and the next run, with a high-score file that is empty or full.    *)
(***************************************************************************)
\* MaxRunFrames bounds the clock.tick calls (frames, pause iterations, menus).
MaxRunFrames == 4

NextRun ==
  \/ BeginFrame(PowerFrames, {NoKeys, {"up"}}, Events({"left", "p"}),
                MaxRunFrames)
  \/ KeyLeft
  \/ KeyPause
  \/ PauseFrame(PauseTimes, MaxRunFrames)
  \/ Resume
  \/ Tick(PowerSpawns, Shields)
  \/ NewRun(MenuTimes, MaxRunFrames)

SpecRun == Start(StoredFiles) /\ [][NextRun]_vars

(***************************************************************************)
(* Near-miss chains: one-second frames, so that the traffic timer fires in *)
(* every frame, and a run of spawner draws, one a frame, that puts a car   *)
(* next to the player in the lane it can steer to, frame after frame; in   *)
(* the second frame the draw may also be a second car for lane 1.          *)
(* Steering is free: any lane key, or a pair of them, in any frame.        *)
(***************************************************************************)
\* MaxComboFrames bounds the frames: seven near-misses in a row end in the 10th.
MaxComboFrames == 10
ComboFrames == {1000}
ComboSpawns ==
  <<{Car(1, 760, 0)}, {Car(2, 400, 0), Car(1, 360, 0)}, {Car(1, 250, 0)},
    {Car(2, 130, 0)}, {Car(1, 100, 0)}, {Car(2, 100, 0)}, {Car(1, 100, 0)}>>
\* The draws of the traffic spawner in the n-th frame.
ComboDraws(n) ==
  IF n <= Len(ComboSpawns) THEN ComboSpawns[n] ELSE {Car(0, 800, 0)}
ComboEvents == Events({"left", "right"}) \cup {<<"left", "right">>}
\* The powerup spawner's draws: the 20% gate fails, or a shield in lane 3.
ComboPowerups == {NoPowerup, Box("shield", 3, 1200)}

NextCombo ==
  \/ BeginFrame(ComboFrames, {NoKeys}, ComboEvents, MaxComboFrames)
  \/ KeyLeft
  \/ KeyRight
  \/ Tick(ComboDraws(frames), ComboPowerups)

SpecCombo == Start({<< >>}) /\ [][NextCombo]_vars

(***************************************************************************)
(* A long near-miss chain: one-second frames, no key held, so that drag    *)
(* takes the player down to PLAYER_MIN_SPEED; cars drawn for lanes 1 and 2 *)
(* in turn, each fast enough to be beside the player three frames later,   *)
(* and then trucks (the slowest kind) for lane 0.  From the fourth frame   *)
(* on the player may steer towards the car beside it, or not steer.        *)
(***************************************************************************)
\* MaxChainFrames bounds the frames: the chain passes 7000 points in the 15th.
MaxChainFrames == 17
ChainFrames == {1000}
ChainSpawns ==
  <<Car(1, 760, 0), Car(2, 400, 0), Car(1, 250, 0), Car(2, 130, 0),
    Car(1, 100, 0), Car(2, 100, 0), Car(1, 100, 0), Car(2, 100, 20),
    Car(1, 100, 50), Car(2, 100, 70), Car(1, 100, 100), Car(2, 100, 130),
    Car(1, 100, 150), Car(2, 100, 180)>>
\* The draw of the traffic spawner in the n-th frame.
ChainDraws(n) ==
  IF n <= Len(ChainSpawns) THEN {ChainSpawns[n]} ELSE {Truck(0, 100, 0)}
\* The KEYDOWN events of the n-th frame.
ChainEvents(n) ==
  IF n < 4 THEN {<< >>}
  ELSE {<< >>, IF n % 2 = 0 THEN <<"left">> ELSE <<"right">>}

NextChain ==
  \/ BeginFrame(ChainFrames, {NoKeys}, ChainEvents(frames + 1), MaxChainFrames)
  \/ KeyLeft
  \/ KeyRight
  \/ Tick(ChainDraws(frames), {NoPowerup})

SpecChain == Start({<< >>}) /\ [][NextChain]_vars

\* -------------------------------------------------------------- properties
Range(q) == {q[i] : i \in 1..Len(q)}
IsTick == last.act = "tick"

(***************************************************************************)
(* C1, as the spec states it: in a tick that starts with a shield charge   *)
(* and in which at least one enemy overlaps the player, the overlap is     *)
(* absorbed and the run is never ended by a crash, however many overlap.   *)
(***************************************************************************)
ShieldPrecedence ==
  (IsTick /\ last.shield0 > 0 /\ last.hits >= 1) => ~last.crashed

(***************************************************************************)
(* C1, as the code has it: every overlapping enemy spends one charge, so a *)
(* tick ends the run in a crash exactly when more enemies overlap the      *)
(* player than it had charges when the tick began, and the crash comes     *)
(* after the charges are spent; otherwise every overlap is absorbed at one *)
(* charge each.  With a single overlapping enemy a charge always saves.    *)
(***************************************************************************)
ShieldPerOverlap ==
  IsTick =>
    /\ last.crashed <=> last.hits > last.shield0
    /\ last.crashed => (state = "GameOver" /\ last.absorbed = last.shield0
                          /\ player.shield = 0)
    /\ ~last.crashed => (state = "Playing" /\ last.absorbed = last.hits
                           /\ player.shield
                                = last.shield0 - last.hits + last.shield)

\* C1: a tick that began with a charge in which two enemies overlapped.
ShieldTwoOverlaps == IsTick /\ last.shield0 > 0 /\ last.hits >= 2

(***************************************************************************)
(* C3: the passing bonus of an enemy is added once, in the first tick that *)
(* finds its y greater than the player's, and never again in the later     *)
(* ticks that find it there: an enemy has been awarded at most once, it    *)
(* has been awarded exactly if some scoring step found it below the        *)
(* player, every enemy of a running game that is below the player has been *)
(* awarded, and a tick adds PASS_BONUS per award to the score.             *)
(***************************************************************************)
PassOnce ==
  /\ \A i \in 1..Len(enemies) :
        /\ enemies[i].awards = (IF enemies[i].above >= 1 THEN 1 ELSE 0)
        /\ enemies[i].passed <=> enemies[i].awards = 1
        /\ (state # "GameOver" /\ enemies[i].y > PLAYER_Y)
              => enemies[i].above >= 1
  /\ IsTick => score = last.score0 + PASS_BONUS * last.awards

\* C3: an enemy found below the player by two ticks or more.
PassedTwice ==
  \E i \in 1..Len(enemies) : enemies[i].above >= 2 /\ enemies[i].awards = 1

Count(q, v) == Cardinality({i \in 1..Len(q) : q[i] = v})
SortedDesc(q) == \A i \in 1..(Len(q) - 1) : q[i] >= q[i + 1]

\* new holds the greatest HIGHSCORE_KEEP entries of old and the score sc.
TopOf(new, old, sc) ==
  LET all == Append(old, sc)
  IN  /\ SortedDesc(new)
      /\ Len(new) = Min(HIGHSCORE_KEEP, Len(all))
      /\ \A v \in Range(all) \cup Range(new) :
            /\ Count(new, v) <= Count(all, v)
            /\ Count(new, v) < Count(all, v) => \A w \in Range(new) : w >= v

(***************************************************************************)
(* C4: a tick that begins without a shield charge and in which an enemy    *)
(* overlaps the player ends the run (GameOver), and the high-score list    *)
(* it saves is the stored list with the run's score appended, sorted in    *)
(* descending order and cut to HIGHSCORE_KEEP (20) entries.                *)
(***************************************************************************)
HeadOnCrash ==
  [][(last'.act = "tick" /\ last'.shield0 = 0 /\ last'.hits >= 1)
       => (state' = "GameOver" /\ TopOf(highscores', highscores, score'))]_vars

\* C4: a crash whose score entered a full list, which dropped an entry.
CrashIntoFullList ==
  /\ IsTick /\ last.shield0 = 0 /\ last.crashed /\ state = "GameOver"
  /\ Len(highscores) = HIGHSCORE_KEEP
  /\ highscores[1] = score /\ score > PASS_BONUS

(***************************************************************************)
(* C5: whatever lane keys and ticks there were, the player's lane is one   *)
(* of 0 .. LANE_COUNT-1.                                                    *)
(***************************************************************************)
LaneBounds == player.lane \in 0..(LANE_COUNT - 1)

\* C5: the outermost lane reached by a steer-right.
SteeredToEdge ==
  last.act = "right" /\ last.lane0 = LANE_COUNT - 2 /\ player.lane = LANE_COUNT - 1

\* A lane key handled in this step while the player is in the lane it points out of.
BoundaryRequest ==
  /\ state = "Playing" /\ pc = "events" /\ evq # << >> /\ evq' = Tail(evq)
  /\ \/ Head(evq) = "left" /\ player.lane = 0
     \/ Head(evq) = "right" /\ player.lane = LANE_COUNT - 1

(***************************************************************************)
(* C6: a steer-left in lane 0 or a steer-right in lane LANE_COUNT-1        *)
(* changes nothing: the player (lane, start_x, target_x, lane_progress),   *)
(* the cooldown timer, the combo state and the score stay as they were.    *)
(***************************************************************************)
BoundaryNoOp ==
  [][BoundaryRequest
       => UNCHANGED <<player, lane_timer, near_combo_count, near_last_time,
                      score, state>>]_vars

\* C6: a steer-left handled in lane 0 with the cooldown over.
LeftAtEdge == last.act = "left" /\ last.lane0 = 0 /\ last.timer0 = 0

(***************************************************************************)
(* C7: a near-miss more than NEAR_MISS_COMBO_WINDOW ms after the previous  *)
(* one of the run sets the combo count to 1; one at most the window after  *)
(* a near-miss that counted 1 sets it to 2; the first of a run sets it     *)
(* to 1.  The near-miss becomes the previous one.                          *)
(***************************************************************************)
ComboReset ==
  last.trigger =>
    /\ near_last_time = clock
    /\ last.combo0 = 0 => near_combo_count = 1
    /\ (last.combo0 >= 1 /\ last.gap > NEAR_MISS_COMBO_WINDOW)
          => near_combo_count = 1
    /\ (last.combo0 = 1 /\ last.gap <= NEAR_MISS_COMBO_WINDOW)
          => near_combo_count = 2

\* C7: a near-miss that came too late after one that had counted 2.
ComboStartsOver ==
  last.trigger /\ last.combo0 = 2 /\ last.gap > NEAR_MISS_COMBO_WINDOW

\* The ceiling of the speed while the nitro boost counts, and while it does not.
Ceiling(boosted) ==
  (PLAYER_MAX_SPEED + (IF boosted THEN NITRO_BOOST ELSE 0)) * Unit

(***************************************************************************)
(* C2, as the spec states it: in every state the speed is at least         *)
(* PLAYER_MIN_SPEED and at most PLAYER_MAX_SPEED, plus the nitro bonus     *)
(* while nitro is left and plus nothing when none is left.                 *)
(***************************************************************************)
SpeedClamp ==
  /\ player.speed >= PLAYER_MIN_SPEED * Unit
  /\ player.speed <= Ceiling(player.nitro > 0)

(***************************************************************************)
(* C2, as the code has it: the speed is at least PLAYER_MIN_SPEED and at   *)
(* most PLAYER_MAX_SPEED plus the nitro bonus, and the bonus counts after  *)
(* a tick if nitro was left when the tick began or is left now: the update *)
(* in which the nitro runs out still clamps to the boosted ceiling.        *)
(***************************************************************************)
SpeedClampLagged ==
  /\ player.speed >= PLAYER_MIN_SPEED * Unit
  /\ player.speed <= Ceiling(TRUE)
  /\ IsTick => player.speed <= Ceiling(player.nitro > 0 \/ last.nitro_in > 0)

\* C2: the tick in which the nitro ran out, the speed still above the plain ceiling.
NitroRanOut ==
  IsTick /\ last.nitro_in > 0 /\ player.nitro = 0 /\ player.speed > Ceiling(FALSE)

\* lane_progress short of 1.0 by rounding only.
NearlyOne(a) == a.hi = Limb - 1 /\ a.lo >= Limb - 2^8

(***************************************************************************)
(* C8, as the spec states it: once Player.update has been given exactly    *)
(* LANE_CHANGE_DURATION since a lane change began, x is the centre of the  *)
(* new lane and lane_progress is 1, however the time was sliced.           *)
(***************************************************************************)
LaneChangeExact ==
  (IsTick /\ lane_elapsed = LANE_CHANGE_DURATION)
    => (player.x = player.target_x /\ player.lane_progress = FOne)

(***************************************************************************)
(* C8, as the code has it: once Player.update has been given exactly       *)
(* LANE_CHANGE_DURATION since a lane change began, x is the centre of the  *)
(* new lane however the time was sliced, and lane_progress is 1 or, for    *)
(* the slicings whose increments do not add up to 1.0 in binary64, short   *)
(* of 1 by rounding only; it is 1 as soon as more time has been given.     *)
(***************************************************************************)
LaneChangeLands ==
  /\ (IsTick /\ lane_elapsed = LANE_CHANGE_DURATION)
       => /\ player.x = player.target_x
          /\ player.target_x = LaneCenter(player.lane) * Unit
          /\ player.lane_progress = FOne \/ NearlyOne(player.lane_progress)
  /\ lane_elapsed > LANE_CHANGE_DURATION => player.lane_progress = FOne

\* C8: a lane change given its duration in slices.
SlicedLaneChange ==
  /\ IsTick /\ lane_elapsed = LANE_CHANGE_DURATION /\ dt_ms < LANE_CHANGE_DURATION
  /\ player.x = player.target_x /\ player.start_x # player.target_x

\* No enemy of the list overlaps the player.
Clear == Overlapping(enemies, player) = {}

(***************************************************************************)
(* C9, as the spec states it: a tick that begins with one shield charge    *)
(* and in which exactly one enemy overlaps the player leaves no charge,    *)
(* removes that enemy and leaves the run Playing, nothing saved.           *)
(***************************************************************************)
ShieldSave ==
  (IsTick /\ last.shield0 = 1 /\ last.hits = 1)
    => (player.shield = 0 /\ Clear /\ state = "Playing" /\ highscores = << >>)

(***************************************************************************)
(* C9, as the code has it: such a tick spends the charge on the enemy,     *)
(* which is removed, and leaves the run Playing with nothing saved (the    *)
(* high-score file, empty at the start, still is); the charges after the   *)
(* tick are the shield powerups its pickup step collected, none if there   *)
(* was no such powerup.                                                    *)
(***************************************************************************)
ShieldSaveThenPickup ==
  (IsTick /\ last.shield0 = 1 /\ last.hits = 1)
    => /\ ~last.crashed /\ last.absorbed = 1
       /\ player.shield = last.shield
       /\ Clear /\ state = "Playing" /\ highscores = << >>

\* C9: the only charge spent on the only overlapping enemy.
ShieldSpent ==
  IsTick /\ last.shield0 = 1 /\ last.hits = 1 /\ player.shield = 0

(***************************************************************************)
(* C10: a tick that picks up a nitro powerup leaves player.nitro at        *)
(* NITRO_DURATION (3.0 s) whatever was left of an earlier boost, and the   *)
(* powerups it picked up are off the list: the list is shorter by them     *)
(* and none of the rest overlaps the player.                               *)
(***************************************************************************)
NitroPickup ==
  (IsTick /\ last.nitro >= 1)
    => /\ player.nitro = NITRO_DURATION
       /\ Len(powerups) = last.boxes - last.nitro - last.shield
       /\ \A i \in 1..Len(powerups) :
             ~CollideRect(PowerupRect(powerups[i]), PlayerRect(player))

\* C10: a nitro powerup picked up while an earlier boost was partly used.
NitroRefilled ==
  IsTick /\ last.nitro >= 1 /\ last.nitro0 > 0 /\ last.nitro0 < NITRO_DURATION

(***************************************************************************)
(* C11: every tick sets difficulty to 1 + floor(score / 1000) * 0.1 (here  *)
(* in tenths), from the score the tick finds, the near-miss bonus of the   *)
(* same frame included: below 1000 points it is 1.0, from 1000 points on   *)
(* 1.1; and no step of a run lowers difficulty.                            *)
(***************************************************************************)
DifficultyStep ==
  [][/\ last'.act = "tick" =>
          /\ difficulty' = 10 + score \div 1000
          /\ score < 1000 => difficulty' = 10
          /\ (score >= 1000 /\ score < 2000) => difficulty' = 11
     /\ last'.act # "run" => difficulty' >= difficulty]_vars

\* A tick that found between 1000 and 1999 points: difficulty is now 1.1.
DifficultySteppedUp ==
  IsTick /\ last.score0 >= 1000 /\ last.score0 < 2000 /\ difficulty = 11

(***************************************************************************)
(* C12: while the run is Paused nothing of the simulation changes, and the *)
(* time the traffic timer, the powerup timer and the combo window measure  *)
(* leaves out the time spent in pause_menu: a timer fires only when the    *)
(* unpaused time since it was set exceeds its interval, and a near-miss    *)
(* within NEAR_MISS_COMBO_WINDOW of unpaused time continues the combo.     *)
(***************************************************************************)
PauseFreezesTime ==
  [][/\ state = "Paused" => UNCHANGED run_vars
     /\ (last'.act = "tick" /\ last_spawn' # last_spawn) =>
          clock - last_spawn - paused.spawn > SpawnInterval(Difficulty(score))
     /\ (last'.act = "tick" /\ last_power' # last_power) =>
          clock - last_power - paused.power > POWERUP_INTERVAL
     /\ (last'.trigger /\ near_combo_count > 0
           /\ clock - near_last_time - paused.near <= NEAR_MISS_COMBO_WINDOW) =>
          near_combo_count' = Min(NEAR_MISS_MAX_COMBO, near_combo_count + 1)]_vars

(***************************************************************************)
(* C13: a powerup leaves the powerup list when it is picked up or when it  *)
(* has left the screen at the bottom, so none of the list is ever further  *)
(* down than the line at which traffic is removed (SCREEN_HEIGHT + 200).   *)
(***************************************************************************)
PowerupsLeave ==
  \A i \in 1..Len(powerups) :
     powerups[i].y <= (SCREEN_HEIGHT + OFFSCREEN_MARGIN) * Unit

\* The near-miss bonuses of the combo counts 1..NEAR_MISS_MAX_COMBO, whole points.
BonusValues ==
  {(NEAR_MISS_BONUS * (100 + (c - 1) * NEAR_MISS_COMBO_MULT)) \div 100 :
     c \in 1..NEAR_MISS_MAX_COMBO}

(***************************************************************************)
(* C14: score is a natural number, 0 when a run starts; within a run no    *)
(* step lowers it, a tick adds 100 for each entity it finds passed, a lane *)
(* key adds nothing or one near-miss bonus, and nothing else changes it.   *)
(***************************************************************************)
ScoreMonotonic ==
  /\ score = 0
  /\ [](score \in Nat)
  /\ [][/\ last'.act = "run" => score' = 0
        /\ last'.act # "run" => score' >= score
        /\ last'.act = "tick" => score' = score + PASS_BONUS * last'.awards
        /\ last'.act \in {"left", "right"} =>
             \/ ~last'.trigger /\ score' = score
             \/ last'.trigger /\ score' - score \in BonusValues
        /\ last'.act \notin {"run", "tick", "left", "right"} =>
             score' = score]_vars

\* A tick that adds a passing bonus to a score that holds a near-miss bonus.
ScoredBothWays ==
  /\ IsTick
  /\ last.awards >= 1
  /\ near_combo_count >= 1
  /\ last.score0 >= NEAR_MISS_BONUS
  /\ score = last.score0 + PASS_BONUS * last.awards

(***************************************************************************)
(* C15: a run is Playing, Paused or GameOver.  Paused is entered only from *)
(* Playing, by the pause key, and left only for Playing, with the          *)
(* simulation as it was.  GameOver is entered only from Playing, by a tick *)
(* in which an entity overlaps the player that has no shield charge left,  *)
(* and every such tick enters it.  That tick saves the score, once: only   *)
(* it changes the high-score file, to the top entries of the file and the  *)
(* score.  From GameOver the only step is the menu's new run: no tick of   *)
(* the ended run, whose score and lists stay as the crash left them.       *)
(***************************************************************************)
RunStateMachine ==
  /\ [](state \in {"Playing", "Paused", "GameOver"})
  /\ [][/\ (state' = "Paused" /\ state # "Paused") =>
             (state = "Playing" /\ last'.act = "p")
        /\ state = "Paused" =>
             /\ state' \in {"Paused", "Playing"}
             /\ last'.act \in {"paused", "resume"}
             /\ UNCHANGED run_vars
        /\ (state' = "GameOver" /\ state # "GameOver") =>
             /\ state = "Playing"
             /\ last'.act = "tick" /\ last'.crashed
             /\ last'.hits > last'.absorbed /\ player'.shield = 0
        /\ (last'.act = "tick" /\ last'.crashed) => state' = "GameOver"
        /\ highscores' # highscores =>
             (state = "Playing" /\ state' = "GameOver")
        /\ (state = "Playing" /\ state' = "GameOver") =>
             (score' = last'.score0 + PASS_BONUS * last'.awards
              /\ TopOf(highscores', highscores, score'))
        /\ state = "GameOver" =>
             (last'.act = "run" /\ state' = "Playing" /\ pc' = "top"
              /\ UNCHANGED highscores)]_vars

\* A run that was paused and resumed, and then ended in a crash.
CrashedAfterPause ==
  state = "GameOver" /\ last.crashed /\ paused.near > 0

\* The road bounds of x: LANE_MARGIN + 10 and LANE_MARGIN + ROAD_WIDTH - 10.
RoadMin == (LANE_MARGIN + 10) * Unit
RoadMax == (LANE_MARGIN + ROAD_WIDTH - 10) * Unit

(***************************************************************************)
(* C16: after every Player.update the player's x is within the road bounds *)
(* [90, 810], also in the ticks in which the lane-change interpolation     *)
(* sets x after the clamp.                                                 *)
(***************************************************************************)
RoadBounds == IsTick => (player.x >= RoadMin /\ player.x <= RoadMax)

\* A tick of a lane change that began at the right bound, where the clamp
\* held the player, and that has set x by interpolation.
EdgeLaneChange ==
  /\ IsTick
  /\ player.start_x = RoadMax
  /\ ~FGeqOne(player.lane_progress)
  /\ player.x < RoadMax

(***************************************************************************)
(* C17: a tick in which now - last_spawn exceeds max(220, int(900 /        *)
(* difficulty)) sets last_spawn to now whether or not the candidate entity *)
(* is appended; a tick in which it does not leaves last_spawn alone and    *)
(* appends nothing, so that a rejected candidate is not tried again before *)
(* a whole interval is over.  The same for last_power and its 6000 ms,     *)
(* whether or not the gate lets a powerup be created.  No step but a tick  *)
(* or a new run touches the two timers.                                    *)
(***************************************************************************)
SpawnTimersReset ==
  [][/\ last'.act = "tick" =>
          /\ IF clock - last_spawn >
                  Max(MIN_SPAWN_INTERVAL,
                      (ENEMY_SPAWN_INTERVAL * 10) \div difficulty')
             THEN last_spawn' = clock
             ELSE last_spawn' = last_spawn /\ ~last'.spawned
          /\ IF clock - last_power > POWERUP_INTERVAL
             THEN last_power' = clock
             ELSE last_power' = last_power /\ ~last'.boxed
     /\ last'.act \notin {"tick", "run"} =>
          UNCHANGED <<last_spawn, last_power>>]_vars

\* A tick whose traffic timer fired and was reset while the candidate entity
\* was rejected, after a tick whose powerup timer was reset with no powerup.
RejectedSpawn ==
  /\ IsTick /\ state = "Playing"
  /\ last_spawn = clock /\ ~last.spawned
  /\ last_power > StartClock /\ powerups = << >>

Beside(es, lane) ==
  {i \in 1..Len(es) :
     es[i].lane = lane /\ Abs(es[i].y - PLAYER_Y) < NEAR_MISS_DISTANCE * Unit}

(***************************************************************************)
(* C19: the combo state (count and time of the last near-miss) changes,    *)
(* and a lane key adds to the score, only in a step that handles a lane    *)
(* key and changes the player's lane while a traffic entity of the new     *)
(* lane is within 180 pixels of player.y; every such step is one trigger:  *)
(* it stamps the time and adds one bonus, however many entities are that   *)
(* near.  A tick, and a lane key ignored at the boundary or during the     *)
(* cooldown, leave the combo state alone and add no near-miss bonus.       *)
(***************************************************************************)
NearMissTrigger ==
  [][last'.act # "run" =>
       LET key == last'.act \in {"left", "right"}
           initiated == key /\ player'.lane # player.lane
           near == Beside(enemies, player'.lane) # {}
           triggered == \/ near_combo_count' # near_combo_count
                        \/ near_last_time' # near_last_time
                        \/ key /\ score' # score
       IN  /\ triggered => (initiated /\ near)
           /\ (initiated /\ near) =>
                /\ near_last_time' = clock
                /\ near_combo_count' >= 1
                /\ score' - score \in BonusValues
           /\ last'.act = "tick" => score' = score + PASS_BONUS * last'.awards
    ]_vars

\* A lane change next to two entities of the new lane: one trigger, one bonus.
OneTriggerForTwo ==
  /\ last.act \in {"left", "right"}
  /\ last.trigger
  /\ Cardinality(Beside(enemies, player.lane)) >= 2
  /\ near_last_time = clock

(***************************************************************************)
(* C20, as the spec states it: every near-miss trigger adds exactly        *)
(* 250 * (1 + 0.25 * (c - 1)) to the score, c the combo count after the    *)
(* trigger, and c is within 1..6.  (Both sides in hundredths of a point.)  *)
(***************************************************************************)
NearMissBonusExact ==
  [][last'.trigger =>
       /\ near_combo_count' \in 1..NEAR_MISS_MAX_COMBO
       /\ 100 * (score' - score) =
            NEAR_MISS_BONUS
              * (100 + (near_combo_count' - 1) * NEAR_MISS_COMBO_MULT)]_vars

(***************************************************************************)
(* C20, amended: every near-miss trigger adds the whole part of            *)
(* 250 * (1 + 0.25 * (c - 1)) to the score, that is 250, 312, 375, 437,    *)
(* 500 or 562, c the combo count after the trigger; c is within 1..6, and  *)
(* the combo count is never above NEAR_MISS_MAX_COMBO.                     *)
(***************************************************************************)
NearMissBonusWhole ==
  /\ [](near_combo_count \in 0..NEAR_MISS_MAX_COMBO)
  /\ [][last'.trigger =>
          LET c == near_combo_count'
              exact == NEAR_MISS_BONUS * (100 + (c - 1) * NEAR_MISS_COMBO_MULT)
          IN  /\ c \in 1..NEAR_MISS_MAX_COMBO
              /\ 100 * (score' - score) <= exact
              /\ exact < 100 * (score' - score + 1)]_vars

\* The seventh near-miss of a chain: the count stays at the cap and the bonus
\* is the whole part of 562.5.
CappedCombo ==
  /\ last.trigger
  /\ last.combo0 = NEAR_MISS_MAX_COMBO
  /\ near_combo_count = NEAR_MISS_MAX_COMBO
  /\ last.gap <= NEAR_MISS_COMBO_WINDOW

NitroNeverSlows ==
  (IsTick /\ ~last.crashed /\ last.nitro >= 1) => player.speed >= last.speed0

(***************************************************************************)
(* C23: the motion update of a tick never moves a traffic entity up the    *)
(* screen: every entity still in the list after the tick has a y that is   *)
(* at least its y before the tick, whatever the player's speed and the     *)
(* score.                                                                  *)
(***************************************************************************)
TrafficMovesDown ==
  [][last'.act = "tick" =>
       \A i \in DOMAIN enemies, j \in DOMAIN enemies' :
          enemies'[j].born = enemies[i].born => enemies'[j].y >= enemies[i].y]_vars

(***************************************************************************)
(* C24: whenever no lane change is in progress (lane_progress = 1.0) the   *)
(* player's x lies inside the lane player.lane names, between              *)
(* LANE_MARGIN + lane * LANE_WIDTH and LANE_MARGIN + (lane + 1) *          *)
(* LANE_WIDTH, whatever steering keys are held.                            *)
(***************************************************************************)
LaneHoldsPlayer ==
  (state = "Playing" /\ player.lane_progress = FOne)
    => /\ (LANE_MARGIN + player.lane * LANE_WIDTH) * Unit <= player.x
       /\ player.x <= (LANE_MARGIN + (player.lane + 1) * LANE_WIDTH) * Unit

====
